---- MODULE Spec2Model ----
(***************************************************************************)
(* FitTrack Pro backend: the account store, the token lifecycle, the auth  *)
(* middleware and the auth/user handlers, as a state machine.              *)
(*                                                                         *)
(* Time is counted in units of 15 minutes (the access token lifetime).     *)
(* A handler that awaits the store between a read and a write is split at  *)
(* that await (register: existence check, then save).                      *)
(***************************************************************************)
EXTENDS Integers, Sequences, FiniteSets, TLC

VARIABLES
    users,      \* the users collection: a set of stored user documents
    nextId,     \* number of ObjectIds handed out so far (ids are never reused)
    now,        \* the clock, in units of 15 minutes
    ticks,      \* how many times the clock has advanced
    held,       \* tokens the clients hold: [role, tok], role = the response field it came in
    pending,    \* register requests that passed the existence check and await save()
    last,       \* the most recent request and its response
    workouts,   \* the workouts collection: a set of stored workout documents
    measurements, \* the measurements collection
    nextRec,    \* number of ObjectIds handed out to workouts and measurements
    burst,      \* login requests one client sent since the clock last advanced, and how
                \* many of them were answered 429
    inflight    \* requests whose handler is between two of its store operations

vars == <<users, nextId, now, ticks, held, pending, last, workouts, measurements, nextRec,
         burst, inflight>>

\* the collections of Routes/Workouts.js and Routes/Measurements.js
recordVars == <<workouts, measurements, nextRec>>

\* the requests under way
requestVars == <<burst, inflight>>

----------------------------------------------------------------------------
(* Bounds *)

MaxUsers == 2
MaxTicks == 1
MaxHeld == 1
MaxPending == 2
MaxRecords == 2
MaxBurst == 6
MaxInFlight == 2

(* Configuration *)

SECRET == "fallback-secret-key"
REFRESH_SECRET == "fallback-refresh-secret"
EXPIRE == 1             \* '15m'
REFRESH_EXPIRE == 672   \* '7d'
RESET_EXPIRE == 4       \* '1h'
SaltRounds == 12

----------------------------------------------------------------------------
(* Inputs *)

RawEmails == {"test@example.com", "Test@Example.com", "wrong@example.com"}
Passwords == {"password123", "wrongpassword"}
RegisterPasswords == {"password123"}
Names == {"John"}
\* bcrypt.genSalt(12): the salts the generator can draw
Salts == {"saltA", "saltB"}

\* String.prototype.toLowerCase on the e-mail inputs
toLowerCase(e) == IF e = "Test@Example.com" THEN "test@example.com" ELSE e

\* express-validator normalizeEmail() on the route's body.email
normalizeEmail(e) == toLowerCase(e)

\* the schema setter of userSchema.email (lowercase: true), run on documents and on queries
emailSetter(e) == toLowerCase(e)

----------------------------------------------------------------------------
(* Password hasher *)

\* bcrypt.hash(plaintext, salt): salt + cost + digest
bcryptHash(plain, salt) ==
    [alg |-> "2a", rounds |-> SaltRounds, salt |-> salt, digest |-> <<salt, plain>>]

\* userSchema.methods.comparePassword: recompute with the embedded salt
comparePassword(candidate, stored) ==
    bcryptHash(candidate, stored.salt).digest = stored.digest

----------------------------------------------------------------------------
(* Tokens *)

NoPurpose == "undefined"

\* jwt.sign(payload, secret, {expiresIn}): iat = now, exp = iat + expiresIn
jwtSign(id, purpose, secret, expiresIn) ==
    [secret |-> secret, id |-> id, purpose |-> purpose, iat |-> now, exp |-> now + expiresIn]

NoTok == [secret |-> "", id |-> 0, purpose |-> NoPurpose, iat |-> 0, exp |-> 0]
\* a string that is not a JWT ('invalid-token')
Garbage == [secret |-> "not-a-jwt", id |-> 0, purpose |-> NoPurpose, iat |-> 0, exp |-> 0]

\* jwt.verify(token, secret): signature first, then expiry (now >= exp is expired)
jwtVerify(tok, secret) ==
    IF tok.secret # secret THEN "JsonWebTokenError"
    ELSE IF now >= tok.exp THEN "TokenExpiredError"
    ELSE "ok"

generateTokens_SameSecret(userId) ==
    [accessToken  |-> jwtSign(userId, NoPurpose, SECRET, EXPIRE),
     refreshToken |-> jwtSign(userId, NoPurpose, SECRET, REFRESH_EXPIRE)]

\* generateTokens (Routes/Auth.js and AuthService): same code in both
generateTokens(userId) ==
    [accessToken  |-> jwtSign(userId, NoPurpose, SECRET, EXPIRE),
     refreshToken |-> jwtSign(userId, NoPurpose, REFRESH_SECRET, REFRESH_EXPIRE)]

NoTokens == [accessToken |-> NoTok, refreshToken |-> NoTok]

----------------------------------------------------------------------------
(* Account store *)

NoDate == -1

Exists(id) == \E u \in users : u._id = id
findById(id) == CHOOSE u \in users : u._id = id

ExistsEmail_Miss(email) == FALSE

\* User.findOne({ email }): the query value runs through the schema setter
ExistsEmail(email) == \E u \in users : u.email = emailSetter(email)
findOneByEmail(email) == CHOOSE u \in users : u.email = emailSetter(email)

\* User.findOne({ email, isActive: true })
ExistsActiveEmail(email) == \E u \in users : u.email = emailSetter(email) /\ u.isActive
findOneActiveByEmail(email) == CHOOSE u \in users : u.email = emailSetter(email) /\ u.isActive

uniqueIndexAllows_NoIndex(email) == TRUE

\* userSchema.index({ email: 1 }, { unique: true }): an insert of a stored e-mail is refused (E11000)
uniqueIndexAllows(email) == ~ \E u \in users : u.email = email

\* a query result without select('+password'): password has select: false
withoutPassword(u) == [k \in (DOMAIN u) \ {"password"} |-> u[k]]

toJSON_KeepPassword(doc) == [k \in (DOMAIN doc) \ {"__v"} |-> doc[k]]

\* userSchema.methods.toJSON: toObject(), delete password, delete __v
toJSON(doc) == [k \in (DOMAIN doc) \ {"password", "__v"} |-> doc[k]]

NoUser == [absent |-> TRUE]

----------------------------------------------------------------------------
(* Requests and responses *)

\* The Authorization header: absent, or the text `words` followed by the text of `tok`
NoHeader == [present |-> FALSE, words |-> <<>>, tok |-> NoTok]

NoStatus == 0

Idle ==
    [op |-> "none", email |-> "", password |-> "", header |-> NoHeader, token |-> NoTok,
     status |-> NoStatus, code |-> "", message |-> "", user |-> NoUser,
     tokens |-> NoTokens, resetToken |-> NoTok, ran |-> FALSE,
     caller |-> 0, id |-> 0, body |-> [absent |-> TRUE], data |-> [absent |-> TRUE]]

\* an error answer: res.status(status).json({ success: false, error: { code, message } })
Failure(req, status, code, message) ==
    [req EXCEPT !.status = status, !.code = code, !.message = message]

\* the operations answered over HTTP by a route handler or by the guard in front of it
HttpOps ==
    {"register", "login", "getProfile", "updateProfile", "deleteAccount", "getStats",
     "createWorkout", "getWorkout", "updateWorkout", "deleteWorkout",
     "createMeasurement", "getMeasurement", "updateMeasurement", "deleteMeasurement"}

\* the keys of the JSON body of an answer of the guard or of a route handler, and the keys
\* of its error object: { success: false, error: { code, message } } (the measurement
\* routes give a message only) or { success: true, message?, data? }
envelope(r) ==
    IF r.status >= 400
    THEN [keys |-> {"success", "error"},
          error |-> {"message"} \cup (IF r.code # "" THEN {"code"} ELSE {})]
    ELSE [keys |-> {"success"} \cup (IF r.message # "" THEN {"message"} ELSE {})
                               \cup (IF r.user # NoUser \/ r.data # [absent |-> TRUE]
                                     THEN {"data"} ELSE {}),
          error |-> {}]

\* String.prototype.replace(w, ''): the first occurrence only
RemoveFirst(s, w) ==
    IF \E i \in 1..Len(s) : s[i] = w
    THEN LET i == CHOOSE i \in 1..Len(s) : s[i] = w /\ \A j \in 1..(i - 1) : s[j] # w
         IN  SubSeq(s, 1, i - 1) \o SubSeq(s, i + 1, Len(s))
    ELSE s

\* the clients keep any of the tokens of a response, up to what they can hold
Keep(new) ==
    \E K \in SUBSET new :
        /\ Cardinality(held \cup K) <= MaxHeld
        /\ held' = held \cup K

PairOf(tokens) ==
    {[role |-> "access", tok |-> tokens.accessToken],
     [role |-> "refresh", tok |-> tokens.refreshToken]}

\* what a client can put after 'Bearer ': a token it holds, or something that is no token
Presentable == {h.tok : h \in held} \cup {Garbage}

\* 'Bearer <token>'
BearerHeaders == {[present |-> TRUE, words |-> <<"Bearer ">>, tok |-> t] : t \in Presentable}

Headers ==
    {NoHeader, [present |-> TRUE, words |-> <<>>, tok |-> NoTok]}
    \cup {[present |-> TRUE, words |-> w, tok |-> t] :
            w \in {<<"Bearer ">>, <<>>, <<"InvalidFormat ">>},
            t \in Presentable}

----------------------------------------------------------------------------
(* Access guard *)

auth_IgnoreIsActive(h) ==
    LET words == RemoveFirst(h.words, "Bearer ")
        deny(code, message) ==
            [pass |-> FALSE, status |-> 401, code |-> code, message |-> message, user |-> NoUser]
    IN  IF ~h.present \/ (words = <<>> /\ h.tok = NoTok)
        THEN deny("NO_TOKEN", "Access denied. No token provided.")
        ELSE IF words # <<>> \/ h.tok = NoTok \/ jwtVerify(h.tok, SECRET) # "ok"
        THEN deny("TOKEN_ERROR", "Invalid token.")
        ELSE IF ~Exists(h.tok.id)
        THEN deny("INVALID_TOKEN", "Invalid token or user not found.")
        ELSE [pass |-> TRUE, status |-> 200, code |-> "", message |-> "",
              user |-> withoutPassword(findById(h.tok.id))]

\* Middleware/Auth.js auth: the answer it sends, or pass = TRUE with req.user
auth(h) ==
    LET words == RemoveFirst(h.words, "Bearer ")
        deny(code, message) ==
            [pass |-> FALSE, status |-> 401, code |-> code, message |-> message, user |-> NoUser]
    IN  IF ~h.present \/ (words = <<>> /\ h.tok = NoTok)
        THEN deny("NO_TOKEN", "Access denied. No token provided.")
        ELSE IF words # <<>> \/ h.tok = NoTok \/ jwtVerify(h.tok, SECRET) # "ok"
        THEN deny("TOKEN_ERROR", "Invalid token.")
        ELSE IF ~Exists(h.tok.id) \/ ~findById(h.tok.id).isActive
        THEN deny("INVALID_TOKEN", "Invalid token or user not found.")
        ELSE [pass |-> TRUE, status |-> 200, code |-> "", message |-> "",
              user |-> withoutPassword(findById(h.tok.id))]

Denied(req, a) == Failure(req, a.status, a.code, a.message)

----------------------------------------------------------------------------
(* Registration: POST /auth/register and AuthService.register *)

FreeSlot == CHOOSE n \in 1..MaxPending : \A p \in pending : p.slot # n

\* Routes/Auth.js POST /register up to the existence check (normalizeEmail ran on the body)
RegisterCheck(raw, password, firstName) ==
    LET email == normalizeEmail(raw)
        req == [Idle EXCEPT !.op = "register", !.email = raw, !.password = password]
    IN  /\ IF ExistsEmail(email)
           THEN /\ last' = Failure(req, 400, "USER_EXISTS", "User already exists with this email")
                /\ pending' = pending
           ELSE /\ Cardinality(pending) < MaxPending
                /\ pending' = pending \cup
                      {[slot |-> FreeSlot, via |-> "register", email |-> email,
                        password |-> password, firstName |-> firstName]}
                /\ last' = [req EXCEPT !.op = "register.await"]
        /\ UNCHANGED <<users, nextId, now, ticks, held, recordVars, requestVars>>

\* new User({...}) and the pre('save') hook: setters run, the password is hashed with a fresh salt
newUser(p, salt) ==
    [_id |-> nextId + 1, email |-> emailSetter(p.email),
     password |-> bcryptHash(p.password, salt), firstName |-> p.firstName,
     role |-> "user", suspended |-> FALSE, isActive |-> TRUE, lastLogin |-> NoDate]

\* the rest of the register handler: user.save() (salt: what genSalt draws), generateTokens,
\* the answer
RegisterSave(p, salt) ==
    LET req == [Idle EXCEPT !.op = p.via, !.email = p.email, !.password = p.password]
    IN  /\ p \in pending
        /\ pending' = pending \ {p}
        /\ IF ~uniqueIndexAllows(emailSetter(p.email))
           THEN \* save() rejects with the duplicate key error E11000
                /\ last' = IF p.via = "register"
                           THEN Failure(req, 500, "REGISTRATION_ERROR", "E11000 duplicate key error")
                           ELSE Failure(req, NoStatus, "11000", "E11000 duplicate key error")
                /\ UNCHANGED <<users, nextId, held>>
           ELSE /\ nextId < MaxUsers
                /\ LET user == newUser(p, salt)
                       tokens == generateTokens(user._id)
                   IN  /\ users' = users \cup {user}
                       /\ nextId' = nextId + 1
                       /\ last' = [req EXCEPT !.status = IF p.via = "register" THEN 201 ELSE NoStatus,
                                              !.message = IF p.via = "register"
                                                          THEN "User registered successfully" ELSE "",
                                              !.user = toJSON(user), !.tokens = tokens, !.ran = TRUE]
                       /\ Keep(PairOf(tokens))
        /\ UNCHANGED <<now, ticks, recordVars, requestVars>>

----------------------------------------------------------------------------
(* Login: POST /auth/login and AuthService.login *)

replaceUser(old, new) == (users \ {old}) \cup {new}

\* the answer when findOne({ email, isActive: true }) finds nothing
noActiveUser(req, message) == Failure(req, 401, "INVALID_CREDENTIALS", message)

wrongPassword_OwnCode(req, message) == Failure(req, 401, "INVALID_PASSWORD", message)

\* the answer when comparePassword is false
wrongPassword(req, message) == Failure(req, 401, "INVALID_CREDENTIALS", message)

loginBody_KeepLastLogin(op, raw, email, password, failMessage, okStatus, okMessage) ==
    LET req == [Idle EXCEPT !.op = op, !.email = raw, !.password = password]
    IN  IF ~ExistsActiveEmail(email)
        THEN /\ last' = noActiveUser(req, failMessage)
             /\ UNCHANGED <<users, held>>
        ELSE LET user == findOneActiveByEmail(email)
             IN  IF ~comparePassword(password, user.password)
                 THEN /\ last' = wrongPassword(req, failMessage)
                      /\ UNCHANGED <<users, held>>
                 ELSE LET tokens == generateTokens(user._id)
                      IN  /\ users' = users
                          /\ last' = [req EXCEPT !.status = okStatus, !.message = okMessage,
                                                 !.user = toJSON(user), !.tokens = tokens,
                                                 !.ran = TRUE]
                          /\ Keep(PairOf(tokens))

\* the two login handlers differ in the e-mail they query with and in the failure message
loginBody(op, raw, email, password, failMessage, okStatus, okMessage) ==
    LET req == [Idle EXCEPT !.op = op, !.email = raw, !.password = password]
    IN  IF ~ExistsActiveEmail(email)
        THEN /\ last' = noActiveUser(req, failMessage)
             /\ UNCHANGED <<users, held>>
        ELSE LET user == findOneActiveByEmail(email)
             IN  IF ~comparePassword(password, user.password)
                 THEN /\ last' = wrongPassword(req, failMessage)
                      /\ UNCHANGED <<users, held>>
                 ELSE LET saved == [user EXCEPT !.lastLogin = now]
                          tokens == generateTokens(user._id)
                      IN  /\ users' = replaceUser(user, saved)
                          /\ last' = [req EXCEPT !.status = okStatus, !.message = okMessage,
                                                 !.user = toJSON(saved), !.tokens = tokens,
                                                 !.ran = TRUE]
                          /\ Keep(PairOf(tokens))

\* Routes/Auth.js POST /login
Login(raw, password) ==
    /\ loginBody("login", raw, normalizeEmail(raw), password,
                 "Invalid email or password", 200, "Login successful")
    /\ UNCHANGED <<nextId, now, ticks, pending, recordVars, requestVars>>

AUTH_MAX_REQUESTS == 5

\* the limiters mounted in front of the auth routes: app.use('/api/v1/auth', authRoutes)
\* mounts the router alone, authLimiter is defined and used nowhere
AuthMiddleware == {}

\* authLimiter's handler: 429, the request does not reach the route
tooManyRequests(req) ==
    Failure(req, 429, "RATE_LIMIT_EXCEEDED",
            "Too many authentication attempts, please try again later.")

\* POST /auth/login as one of the requests a client sends in one rate-limit window
BurstLogin(raw, password) ==
    LET req == [Idle EXCEPT !.op = "login", !.email = raw, !.password = password]
        limited == "authLimiter" \in AuthMiddleware /\ burst.sent >= AUTH_MAX_REQUESTS
    IN  /\ burst.sent < MaxBurst
        /\ burst' = [sent |-> burst.sent + 1,
                     limited |-> burst.limited + (IF limited THEN 1 ELSE 0)]
        /\ IF limited
           THEN /\ last' = tooManyRequests(req)
                /\ UNCHANGED <<users, held>>
           ELSE loginBody("login", raw, normalizeEmail(raw), password,
                          "Invalid email or password", 200, "Login successful")
        /\ UNCHANGED <<nextId, now, ticks, pending, recordVars, inflight>>

\* AuthService.login
ServiceLogin(raw, password) ==
    /\ loginBody("AuthService.login", raw, raw, password,
                 "Invalid credentials", NoStatus, "")
    /\ UNCHANGED <<nextId, now, ticks, pending, recordVars, requestVars>>

----------------------------------------------------------------------------
(* AuthService: refresh, verify, logout, password reset *)

RefreshToken_IgnoreIsActive(tok) ==
    LET req == [Idle EXCEPT !.op = "refreshToken", !.token = tok]
        invalid == Failure(req, 401, "INVALID_REFRESH_TOKEN", "Invalid refresh token")
    IN  /\ IF jwtVerify(tok, REFRESH_SECRET) # "ok" \/ ~Exists(tok.id)
           THEN /\ last' = invalid
                /\ held' = held
           ELSE LET tokens == generateTokens(findById(tok.id)._id)
                IN  /\ last' = [req EXCEPT !.tokens = tokens, !.ran = TRUE]
                    /\ Keep(PairOf(tokens))
        /\ UNCHANGED <<users, nextId, now, ticks, pending, recordVars, requestVars>>

\* AuthService.refreshToken
RefreshToken(tok) ==
    LET req == [Idle EXCEPT !.op = "refreshToken", !.token = tok]
        invalid == Failure(req, 401, "INVALID_REFRESH_TOKEN", "Invalid refresh token")
    IN  /\ IF jwtVerify(tok, REFRESH_SECRET) # "ok"
           THEN /\ last' = invalid
                /\ held' = held
           ELSE IF ~Exists(tok.id) \/ ~findById(tok.id).isActive
           THEN /\ last' = invalid
                /\ held' = held
           ELSE LET tokens == generateTokens(findById(tok.id)._id)
                IN  /\ last' = [req EXCEPT !.tokens = tokens, !.ran = TRUE]
                    /\ Keep(PairOf(tokens))
        /\ UNCHANGED <<users, nextId, now, ticks, pending, recordVars, requestVars>>

\* AuthService.verifyToken
VerifyToken(tok) ==
    LET req == [Idle EXCEPT !.op = "verifyToken", !.token = tok]
        invalid == Failure(req, 401, "INVALID_TOKEN", "Invalid token")
    IN  /\ last' = IF jwtVerify(tok, SECRET) # "ok" THEN invalid
                   ELSE IF ~Exists(tok.id) \/ ~findById(tok.id).isActive THEN invalid
                   ELSE [req EXCEPT !.user = withoutPassword(findById(tok.id)), !.ran = TRUE]
        /\ UNCHANGED <<users, nextId, now, ticks, held, pending, recordVars, requestVars>>

Logout_Revokes(userId) ==
    /\ last' = [Idle EXCEPT !.op = "logout", !.message = "Logged out successfully", !.ran = TRUE]
    /\ users' = {[u EXCEPT !.isActive = u.isActive /\ u._id # userId] : u \in users}
    /\ UNCHANGED <<nextId, now, ticks, held, pending, recordVars, requestVars>>

\* AuthService.logout
Logout(userId) ==
    /\ last' = [Idle EXCEPT !.op = "logout", !.message = "Logged out successfully", !.ran = TRUE]
    /\ UNCHANGED <<users, nextId, now, ticks, held, pending, recordVars, requestVars>>

\* AuthService.generatePasswordResetToken
GeneratePasswordResetToken(raw) ==
    LET req == [Idle EXCEPT !.op = "generatePasswordResetToken", !.email = raw]
    IN  /\ IF ~ExistsActiveEmail(raw)
           THEN /\ last' = [req EXCEPT !.message = "If the email exists, a reset link has been sent"]
                /\ held' = held
           ELSE LET resetToken == jwtSign(findOneActiveByEmail(raw)._id, "password_reset",
                                          SECRET, RESET_EXPIRE)
                IN  /\ last' = [req EXCEPT !.message = "Password reset token generated",
                                           !.resetToken = resetToken, !.ran = TRUE]
                    /\ Keep({[role |-> "reset", tok |-> resetToken]})
        /\ UNCHANGED <<users, nextId, now, ticks, pending, recordVars, requestVars>>

ResetPassword_AnyPurpose(tok, newPassword, salt) ==
    LET req == [Idle EXCEPT !.op = "resetPassword", !.token = tok, !.password = newPassword]
    IN  /\ IF jwtVerify(tok, SECRET) # "ok"
           THEN /\ last' = Failure(req, 400, "INVALID_RESET_TOKEN", "Invalid or expired reset token")
                /\ users' = users
           ELSE IF ~Exists(tok.id) \/ ~findById(tok.id).isActive
           THEN /\ last' = Failure(req, 400, "INVALID_RESET_TOKEN", "Invalid reset token")
                /\ users' = users
           ELSE LET user == findById(tok.id)
                IN  /\ users' = replaceUser(user,
                                   [user EXCEPT !.password = bcryptHash(newPassword, salt)])
                    /\ last' = [req EXCEPT !.message = "Password reset successfully",
                                           !.ran = TRUE]
        /\ UNCHANGED <<nextId, now, ticks, held, pending, recordVars, requestVars>>

\* AuthService.resetPassword
ResetPassword(tok, newPassword, salt) ==
    LET req == [Idle EXCEPT !.op = "resetPassword", !.token = tok, !.password = newPassword]
    IN  /\ IF jwtVerify(tok, SECRET) # "ok"
           THEN /\ last' = Failure(req, 400, "INVALID_RESET_TOKEN", "Invalid or expired reset token")
                /\ users' = users
           ELSE IF tok.purpose # "password_reset"
                   \/ ~Exists(tok.id) \/ ~findById(tok.id).isActive
           THEN /\ last' = Failure(req, 400, "INVALID_RESET_TOKEN", "Invalid reset token")
                /\ users' = users
           ELSE LET user == findById(tok.id)
                IN  /\ users' = replaceUser(user,
                                   [user EXCEPT !.password = bcryptHash(newPassword, salt)])
                    /\ last' = [req EXCEPT !.message = "Password reset successfully",
                                           !.ran = TRUE]
        /\ UNCHANGED <<nextId, now, ticks, held, pending, recordVars, requestVars>>

----------------------------------------------------------------------------
(* Protected routes of Routes/Users.js: the guard, then the handler *)

\* GET /users/profile
GetProfile(h) ==
    LET req == [Idle EXCEPT !.op = "getProfile", !.header = h]
        a == auth(h)
    IN  /\ last' = IF ~a.pass THEN Denied(req, a)
                   ELSE [req EXCEPT !.status = 200, !.user = toJSON(withoutPassword(findById(a.user._id))),
                                    !.ran = TRUE]
        /\ UNCHANGED <<users, nextId, now, ticks, held, pending, recordVars, requestVars>>

allowedUpdates_WithRole ==
    {"firstName", "lastName", "dateOfBirth", "gender", "fitnessLevel", "goals", "units", "privacy",
     "email", "role"}

allowedUpdates ==
    {"firstName", "lastName", "dateOfBirth", "gender", "fitnessLevel", "goals", "units", "privacy"}

Bodies ==
    {[firstName |-> "Jane"],
     [firstName |-> "Jane", email |-> "wrong@example.com"],
     [password |-> "wrongpassword", isActive |-> FALSE]}

\* bodies of profile updates that pass profileValidation: one of an allowed field, one
\* that also names the fields a client must not set
ProfileBodies ==
    {[units |-> "imperial"],
     [firstName |-> "Jane", avatar |-> "a.png", email |-> "wrong@example.com",
      password |-> "wrongpassword", role |-> "admin", isActive |-> FALSE, suspended |-> TRUE]}

\* the update document built from req.body: the allowed keys, then delete updates.email
updatesOf(body) == [k \in ((DOMAIN body) \cap allowedUpdates) \ {"email"} |-> body[k]]

\* findByIdAndUpdate(id, updates, { new: true }): the fields of the update document are set
applyUpdates(u, updates) ==
    [k \in (DOMAIN u) \cup (DOMAIN updates) |-> IF k \in DOMAIN updates THEN updates[k] ELSE u[k]]

\* PUT /users/profile
UpdateProfile(h, body) ==
    LET req == [Idle EXCEPT !.op = "updateProfile", !.header = h, !.body = body]
        a == auth(h)
    IN  /\ IF ~a.pass
           THEN /\ last' = Denied(req, a)
                /\ users' = users
           ELSE LET user == findById(a.user._id)
                    updated == applyUpdates(user, updatesOf(body))
                IN  /\ users' = replaceUser(user, updated)
                    /\ last' = [req EXCEPT !.caller = a.user._id, !.status = 200,
                                           !.message = "Profile updated successfully",
                                           !.user = toJSON(withoutPassword(updated)), !.ran = TRUE]
        /\ UNCHANGED <<nextId, now, ticks, held, pending, recordVars, requestVars>>

serviceAllowedUpdates == allowedUpdates \cup {"avatar"}

\* the value of an optional field is one of the allowed ones (updates.x && !allowed.includes)
validOption(updates, k, allowed) == k \in DOMAIN updates => updates[k] \in allowed

\* UserService.updateProfile
ServiceUpdateProfile(userId, body) ==
    LET req == [Idle EXCEPT !.op = "serviceUpdateProfile", !.caller = userId, !.body = body]
        updates == [k \in (DOMAIN body) \cap serviceAllowedUpdates |-> body[k]]
    IN  /\ IF ~validOption(updates, "fitnessLevel", {"beginner", "intermediate", "advanced"})
           THEN /\ last' = Failure(req, 400, "INVALID_FITNESS_LEVEL", "Invalid fitness level")
                /\ users' = users
           ELSE IF ~validOption(updates, "units", {"metric", "imperial"})
           THEN /\ last' = Failure(req, 400, "INVALID_UNITS", "Invalid units")
                /\ users' = users
           ELSE IF ~validOption(updates, "privacy", {"public", "private"})
           THEN /\ last' = Failure(req, 400, "INVALID_PRIVACY", "Invalid privacy setting")
                /\ users' = users
           ELSE IF ~Exists(userId)
           THEN /\ last' = Failure(req, 404, "USER_NOT_FOUND", "User not found")
                /\ users' = users
           ELSE LET updated == applyUpdates(findById(userId), updates)
                IN  /\ users' = replaceUser(findById(userId), updated)
                    /\ last' = [req EXCEPT !.user = updated, !.ran = TRUE]
        /\ UNCHANGED <<nextId, now, ticks, held, pending, recordVars, requestVars>>

NoPassword == ""

DeleteAccount_DeleteFirst(h, password) ==
    LET req == [Idle EXCEPT !.op = "deleteAccount", !.header = h, !.password = password]
        a == auth(h)
    IN  /\ IF ~a.pass
           THEN /\ last' = Denied(req, a)
                /\ UNCHANGED <<users, workouts>>
           ELSE /\ workouts' = {w \in workouts : w.userId # a.user._id}
                /\ IF password = NoPassword
                   THEN /\ last' = [Failure(req, 400, "PASSWORD_REQUIRED",
                                            "Password confirmation required to delete account")
                                      EXCEPT !.ran = TRUE]
                        /\ users' = users
                   ELSE IF ~comparePassword(password, findById(a.user._id).password)
                   THEN /\ last' = [Failure(req, 401, "INVALID_PASSWORD", "Invalid password")
                                      EXCEPT !.ran = TRUE]
                        /\ users' = users
                   ELSE /\ users' = users \ {findById(a.user._id)}
                        /\ last' = [req EXCEPT !.status = 200,
                                               !.message = "Account deleted successfully",
                                               !.ran = TRUE]
        /\ UNCHANGED <<nextId, now, ticks, held, pending, measurements, nextRec, requestVars>>

\* DELETE /users/account: Workout.deleteMany({ userId }), then User.findByIdAndDelete
DeleteAccount(h, password) ==
    LET req == [Idle EXCEPT !.op = "deleteAccount", !.header = h, !.password = password]
        a == auth(h)
    IN  /\ IF ~a.pass
           THEN /\ last' = Denied(req, a)
                /\ UNCHANGED <<users, workouts>>
           ELSE IF password = NoPassword
           THEN /\ last' = [Failure(req, 400, "PASSWORD_REQUIRED",
                                    "Password confirmation required to delete account")
                              EXCEPT !.ran = TRUE]
                /\ UNCHANGED <<users, workouts>>
           ELSE IF ~comparePassword(password, findById(a.user._id).password)
           THEN /\ last' = [Failure(req, 401, "INVALID_PASSWORD", "Invalid password")
                              EXCEPT !.ran = TRUE]
                /\ UNCHANGED <<users, workouts>>
           ELSE /\ workouts' = {w \in workouts : w.userId # a.user._id}
                /\ users' = users \ {findById(a.user._id)}
                /\ last' = [req EXCEPT !.status = 200, !.message = "Account deleted successfully",
                                       !.ran = TRUE]
        /\ UNCHANGED <<nextId, now, ticks, held, pending, measurements, nextRec, requestVars>>

----------------------------------------------------------------------------
(* Workouts: Models/Workout.js and Routes/Workouts.js *)

NoData == [absent |-> TRUE]

\* request bodies that pass workoutValidation (a name, at least one exercise); a body may
\* give the workout's date: here a Saturday and a Sunday, the clock starts on a Thursday
WorkoutBodies ==
    {[name |-> "Push",
      exercises |-> <<[name |-> "Bench",
                       sets |-> <<[reps |-> 10, weight |-> 50], [reps |-> 8, weight |-> 55]>>]>>],
     [name |-> "Legs",
      exercises |-> <<[name |-> "Squat", sets |-> <<[reps |-> 5]>>],
                      [name |-> "Bench", sets |-> <<[reps |-> 3, weight |-> 100]>>]>>,
      totalVolume |-> 9999,
      totalDuration |-> 45,
      date |-> 2 * 24 * 4],
     [name |-> "Pull",
      exercises |-> <<[name |-> "Row", sets |-> <<[reps |-> 12, weight |-> 40]>>]>>,
      totalDuration |-> 30,
      date |-> 3 * 24 * 4]}

\* (x || 0) on an optional numeric field
orZero(r, k) == IF k \in DOMAIN r THEN r[k] ELSE 0

RECURSIVE setsVolume(_)
\* exercise.sets.reduce((setTotal, set) => setTotal + (set.weight || 0) * (set.reps || 0), 0)
setsVolume(sets) ==
    IF sets = <<>> THEN 0
    ELSE setsVolume(SubSeq(sets, 1, Len(sets) - 1))
            + orZero(sets[Len(sets)], "weight") * orZero(sets[Len(sets)], "reps")

RECURSIVE exercisesVolume(_)
\* exercises.reduce((total, exercise) => total + exerciseVolume, 0)
exercisesVolume(exercises) ==
    IF exercises = <<>> THEN 0
    ELSE exercisesVolume(SubSeq(exercises, 1, Len(exercises) - 1))
            + setsVolume(exercises[Len(exercises)].sets)

\* a record with one field set
withField(r, k, v) == [f \in (DOMAIN r) \cup {k} |-> IF f = k THEN v ELSE r[f]]

\* workoutSchema.pre('save'): totalVolume is recomputed when there are exercises
preSave(w) ==
    IF Len(w.exercises) > 0
    THEN withField(w, "totalVolume", exercisesVolume(w.exercises))
    ELSE w

\* new Workout({ ...req.body, userId }): the body's fields, the owner, date defaults to now
newWorkout(body, userId) ==
    [f \in (DOMAIN body) \cup {"_id", "userId", "date"} |->
        IF f = "_id" THEN nextRec + 1
        ELSE IF f = "userId" THEN userId
        ELSE IF f = "date" THEN (IF "date" \in DOMAIN body THEN body.date ELSE now)
        ELSE body[f]]

\* the document after findOneAndUpdate(filter, req.body): the body's fields are set
setFields(doc, body) ==
    [f \in (DOMAIN doc) \cup (DOMAIN body) |-> IF f \in DOMAIN body THEN body[f] ELSE doc[f]]

\* Workout.findOne({ _id, userId })
OwnWorkout(id, userId) == {w \in workouts : w._id = id /\ w.userId = userId}

workoutNotFound(req) == Failure(req, 404, "WORKOUT_NOT_FOUND", "Workout not found")

\* POST /workouts
CreateWorkout(h, body) ==
    LET req == [Idle EXCEPT !.op = "createWorkout", !.header = h, !.body = body]
        a == auth(h)
    IN  /\ IF ~a.pass
           THEN /\ last' = Denied(req, a)
                /\ UNCHANGED <<workouts, nextRec>>
           ELSE /\ nextRec < MaxRecords
                /\ LET workout == preSave(newWorkout(body, a.user._id))
                   IN  /\ workouts' = workouts \cup {workout}
                       /\ nextRec' = nextRec + 1
                       /\ last' = [req EXCEPT !.caller = a.user._id, !.status = 201,
                                              !.message = "Workout created successfully",
                                              !.data = workout, !.ran = TRUE]
        /\ UNCHANGED <<users, nextId, now, ticks, held, pending, measurements, requestVars>>

\* GET /workouts/:id
GetWorkout(h, id) ==
    LET req == [Idle EXCEPT !.op = "getWorkout", !.header = h, !.id = id]
        a == auth(h)
    IN  /\ last' = IF ~a.pass THEN Denied(req, a)
                   ELSE LET r == [req EXCEPT !.caller = a.user._id, !.ran = TRUE]
                        IN  IF OwnWorkout(id, a.user._id) = {} THEN workoutNotFound(r)
                            ELSE [r EXCEPT !.status = 200,
                                           !.data = CHOOSE w \in OwnWorkout(id, a.user._id) : TRUE]
        /\ UNCHANGED <<users, nextId, now, ticks, held, pending, recordVars, requestVars>>

\* PUT /workouts/:id: findOneAndUpdate does not run the save hook
UpdateWorkout(h, id, body) ==
    LET req == [Idle EXCEPT !.op = "updateWorkout", !.header = h, !.id = id, !.body = body]
        a == auth(h)
    IN  /\ IF ~a.pass
           THEN /\ last' = Denied(req, a)
                /\ workouts' = workouts
           ELSE LET r == [req EXCEPT !.caller = a.user._id, !.ran = TRUE]
                IN  IF OwnWorkout(id, a.user._id) = {}
                    THEN /\ last' = workoutNotFound(r)
                         /\ workouts' = workouts
                    ELSE LET old == CHOOSE w \in OwnWorkout(id, a.user._id) : TRUE
                             workout == setFields(old, body)
                         IN  /\ workouts' = (workouts \ {old}) \cup {workout}
                             /\ last' = [r EXCEPT !.status = 200,
                                                  !.message = "Workout updated successfully",
                                                  !.data = workout]
        /\ UNCHANGED <<users, nextId, now, ticks, held, pending, measurements, nextRec, requestVars>>

\* DELETE /workouts/:id
DeleteWorkout(h, id) ==
    LET req == [Idle EXCEPT !.op = "deleteWorkout", !.header = h, !.id = id]
        a == auth(h)
    IN  /\ IF ~a.pass
           THEN /\ last' = Denied(req, a)
                /\ workouts' = workouts
           ELSE LET r == [req EXCEPT !.caller = a.user._id, !.ran = TRUE]
                IN  IF OwnWorkout(id, a.user._id) = {}
                    THEN /\ last' = workoutNotFound(r)
                         /\ workouts' = workouts
                    ELSE /\ workouts' = workouts \ OwnWorkout(id, a.user._id)
                         /\ last' = [r EXCEPT !.status = 200,
                                              !.message = "Workout deleted successfully"]
        /\ UNCHANGED <<users, nextId, now, ticks, held, pending, measurements, nextRec, requestVars>>

----------------------------------------------------------------------------
(* Measurements: Models/Measurement.js and Routes/Measurements.js *)

MeasurementBodies == {[weight |-> 70], [weight |-> 72, bodyFat |-> 18]}

\* new Measurement({ ...req.body, user })
newMeasurement(body, userId) ==
    [f \in (DOMAIN body) \cup {"_id", "user", "date"} |->
        IF f = "_id" THEN nextRec + 1
        ELSE IF f = "user" THEN userId
        ELSE IF f = "date" THEN (IF "date" \in DOMAIN body THEN body.date ELSE now)
        ELSE body[f]]

OwnMeasurement_AnyOwner(id, userId) == {m \in measurements : m._id = id}

\* Measurement.findOne({ _id, user })
OwnMeasurement(id, userId) == {m \in measurements : m._id = id /\ m.user = userId}

\* res.status(404).json({ success: false, error: { message } }): no code
measurementNotFound(req) == Failure(req, 404, "", "Measurement not found")

\* POST /measurements
CreateMeasurement(h, body) ==
    LET req == [Idle EXCEPT !.op = "createMeasurement", !.header = h, !.body = body]
        a == auth(h)
    IN  /\ IF ~a.pass
           THEN /\ last' = Denied(req, a)
                /\ UNCHANGED <<measurements, nextRec>>
           ELSE /\ nextRec < MaxRecords
                /\ LET measurement == newMeasurement(body, a.user._id)
                   IN  /\ measurements' = measurements \cup {measurement}
                       /\ nextRec' = nextRec + 1
                       /\ last' = [req EXCEPT !.caller = a.user._id, !.status = 201,
                                              !.data = measurement, !.ran = TRUE]
        /\ UNCHANGED <<users, nextId, now, ticks, held, pending, workouts, requestVars>>

\* GET /measurements/:id
GetMeasurement(h, id) ==
    LET req == [Idle EXCEPT !.op = "getMeasurement", !.header = h, !.id = id]
        a == auth(h)
    IN  /\ last' = IF ~a.pass THEN Denied(req, a)
                   ELSE LET r == [req EXCEPT !.caller = a.user._id, !.ran = TRUE]
                        IN  IF OwnMeasurement(id, a.user._id) = {} THEN measurementNotFound(r)
                            ELSE [r EXCEPT !.status = 200,
                                           !.data = CHOOSE m \in OwnMeasurement(id, a.user._id) : TRUE]
        /\ UNCHANGED <<users, nextId, now, ticks, held, pending, recordVars, requestVars>>

\* PUT /measurements/:id
UpdateMeasurement(h, id, body) ==
    LET req == [Idle EXCEPT !.op = "updateMeasurement", !.header = h, !.id = id, !.body = body]
        a == auth(h)
    IN  /\ IF ~a.pass
           THEN /\ last' = Denied(req, a)
                /\ measurements' = measurements
           ELSE LET r == [req EXCEPT !.caller = a.user._id, !.ran = TRUE]
                IN  IF OwnMeasurement(id, a.user._id) = {}
                    THEN /\ last' = measurementNotFound(r)
                         /\ measurements' = measurements
                    ELSE LET old == CHOOSE m \in OwnMeasurement(id, a.user._id) : TRUE
                             measurement == setFields(old, body)
                         IN  /\ measurements' = (measurements \ {old}) \cup {measurement}
                             /\ last' = [r EXCEPT !.status = 200, !.data = measurement]
        /\ UNCHANGED <<users, nextId, now, ticks, held, pending, workouts, nextRec, requestVars>>

\* DELETE /measurements/:id
DeleteMeasurement(h, id) ==
    LET req == [Idle EXCEPT !.op = "deleteMeasurement", !.header = h, !.id = id]
        a == auth(h)
    IN  /\ IF ~a.pass
           THEN /\ last' = Denied(req, a)
                /\ measurements' = measurements
           ELSE LET r == [req EXCEPT !.caller = a.user._id, !.ran = TRUE]
                IN  IF OwnMeasurement(id, a.user._id) = {}
                    THEN /\ last' = measurementNotFound(r)
                         /\ measurements' = measurements
                    ELSE /\ measurements' = measurements \ OwnMeasurement(id, a.user._id)
                         /\ last' = [r EXCEPT !.status = 200,
                                              !.message = "Measurement deleted successfully"]
        /\ UNCHANGED <<users, nextId, now, ticks, held, pending, workouts, nextRec, requestVars>>

----------------------------------------------------------------------------
(* Statistics: GET /users/stats and UserService.getUserStats *)

\* 30 * 24 * 60 * 60 * 1000 ms, in units of 15 minutes
ThirtyDays == 30 * 24 * 4

RECURSIVE Sum(_, _)
\* $sum of f over the documents of S
Sum(f, S) ==
    IF S = {} THEN 0
    ELSE LET x == CHOOSE x \in S : TRUE
         IN  f[x] + Sum(f, S \ {x})

\* Math.round(sum / n) for a non-negative sum: halves round up
roundedMean(sum, n) == (2 * sum + n) \div (2 * n)

matchUser_Everyone(userId) == workouts

\* { $match: { userId } }
matchUser(userId) == {w \in workouts : w.userId = userId}

\* the $group stage: no document when nothing matched; $sum skips a missing totalVolume,
\* $avg averages over the documents that have a totalDuration (null when none has)
workoutStats(userId) ==
    LET matched == matchUser(userId)
        timed == {w \in matched : "totalDuration" \in DOMAIN w}
    IN  IF matched = {} THEN <<>>
        ELSE <<[totalVolume |-> Sum([w \in matched |-> orZero(w, "totalVolume")], matched),
                averageDuration |->
                    IF timed = {} THEN 0
                    ELSE roundedMean(Sum([w \in timed |-> w.totalDuration], timed),
                                     Cardinality(timed)),
                totalExercises |-> Sum([w \in matched |-> Len(w.exercises)], matched)]>>

firstOrZero_Undefined(groups, k) == IF groups = <<>> THEN -1 ELSE groups[1][k]

\* workoutStats[0]?.field || 0
firstOrZero(groups, k) == IF groups = <<>> THEN 0 ELSE groups[1][k]

\* the stats object of GET /users/stats
routeStats(userId) ==
    [totalWorkouts |-> Cardinality({w \in workouts : w.userId = userId}),
     recentWorkouts |-> Cardinality({w \in workouts : w.userId = userId
                                                       /\ w.date >= now - ThirtyDays}),
     totalVolume |-> firstOrZero(workoutStats(userId), "totalVolume"),
     averageDuration |-> firstOrZero(workoutStats(userId), "averageDuration"),
     totalExercises |-> firstOrZero(workoutStats(userId), "totalExercises")]

dayOfWeek_FromZero(date) == ((date \div (24 * 4)) + 4) % 7

\* $dayOfWeek: 1 (Sunday) .. 7; day 0 of the clock is a Thursday
dayOfWeek(date) == (((date \div (24 * 4)) + 4) % 7) + 1

\* group by $dayOfWeek, count, sort by day
workoutsByDay(userId) ==
    LET count(d) == Cardinality({w \in matchUser(userId) : dayOfWeek(w.date) = d})
        days == SelectSeq(<<1, 2, 3, 4, 5, 6, 7>>, LAMBDA d : count(d) > 0)
    IN  [i \in 1..Len(days) |-> [dayOfWeek |-> days[i], count |-> count(days[i])]]

\* { $unwind: '$exercises' }: one entry per exercise of a matched workout
unwound(userId) ==
    UNION {{<<w, i>> : i \in 1..Len(w.exercises)} : w \in matchUser(userId)}

\* { $group: { _id: '$exercises.name', count: { $sum: 1 }, totalSets: { $sum: { $size: sets } } } },
\* mapped to { name, workouts, totalSets }
popularGroups(userId) ==
    LET name(e) == e[1].exercises[e[2]].name
        group(n) ==
            LET of == {e \in unwound(userId) : name(e) = n}
            IN  [name |-> n, workouts |-> Cardinality(of),
                 totalSets |-> Sum([e \in of |-> Len(e[1].exercises[e[2]].sets)], of)]
    IN  {group(name(e)) : e \in unwound(userId)}

PopularLimit == 5

countDescending_Ascending(s) ==
    \A i, j \in 1..Len(s) : i < j => s[i].workouts <= s[j].workouts

\* { $sort: { count: -1 } }
countDescending(s) ==
    \A i, j \in 1..Len(s) : i < j => s[i].workouts >= s[j].workouts

\* the results the popularExercises pipeline can give: $group emits its groups in no
\* specified order and $sort orders them by count only, so groups with equal counts come
\* in any order, also across the $limit
popularExercises(userId) ==
    LET groups == popularGroups(userId)
        k == IF Cardinality(groups) <= PopularLimit THEN Cardinality(groups) ELSE PopularLimit
    IN  {s \in [1..k -> groups] :
            /\ \A i, j \in 1..k : i # j => s[i] # s[j]
            /\ countDescending(s)
            /\ \A g \in groups : (\A i \in 1..k : s[i] # g)
                                    => \A i \in 1..k : s[i].workouts >= g.workouts}

\* GET /users/stats
GetStats(h) ==
    LET req == [Idle EXCEPT !.op = "getStats", !.header = h]
        a == auth(h)
    IN  /\ last' = IF ~a.pass THEN Denied(req, a)
                   ELSE [req EXCEPT !.caller = a.user._id, !.status = 200,
                                    !.data = routeStats(a.user._id), !.ran = TRUE]
        /\ UNCHANGED <<users, nextId, now, ticks, held, pending, recordVars, requestVars>>

\* UserService.getUserStats
GetUserStats(userId) ==
    LET req == [Idle EXCEPT !.op = "getUserStats", !.caller = userId]
    IN  /\ IF ~Exists(userId)
           THEN last' = Failure(req, 404, "USER_NOT_FOUND", "User not found")
           ELSE \E popular \in popularExercises(userId) :
                  last' = [req EXCEPT !.ran = TRUE,
                                      !.data = [f \in (DOMAIN routeStats(userId))
                                                      \cup {"workoutsByDay", "popularExercises"} |->
                                                  IF f = "workoutsByDay" THEN workoutsByDay(userId)
                                                  ELSE IF f = "popularExercises" THEN popular
                                                  ELSE routeStats(userId)[f]]]
        /\ UNCHANGED <<users, nextId, now, ticks, held, pending, recordVars, requestVars>>

----------------------------------------------------------------------------
(* Handlers taken one store operation at a time: the requests between two awaits *)

\* POST /workouts up to the guard: auth has loaded the caller's account, the handler has
\* not saved yet
CreateWorkoutGuard(h, body) ==
    LET req == [Idle EXCEPT !.op = "createWorkout", !.header = h, !.body = body]
        a == auth(h)
    IN  /\ IF ~a.pass
           THEN /\ last' = Denied(req, a)
                /\ inflight' = inflight
           ELSE /\ Cardinality(inflight) < MaxInFlight
                /\ inflight' = inflight \cup
                      {[req EXCEPT !.op = "createWorkout.await", !.caller = a.user._id]}
                /\ last' = [req EXCEPT !.op = "createWorkout.await", !.caller = a.user._id]
        /\ UNCHANGED <<users, nextId, now, ticks, held, pending, recordVars, burst>>

\* the rest of POST /workouts: new Workout({ ...req.body, userId }), save(), 201
CreateWorkoutSave(r) ==
    /\ r \in inflight
    /\ r.op = "createWorkout.await"
    /\ nextRec < MaxRecords
    /\ LET workout == preSave(newWorkout(r.body, r.caller))
       IN  /\ workouts' = workouts \cup {workout}
           /\ nextRec' = nextRec + 1
           /\ last' = [r EXCEPT !.op = "createWorkout", !.status = 201,
                                !.message = "Workout created successfully",
                                !.data = workout, !.ran = TRUE]
    /\ inflight' = inflight \ {r}
    /\ UNCHANGED <<users, nextId, now, ticks, held, pending, measurements, burst>>

\* DELETE /users/account up to its first store write: the guard, the password checks,
\* Workout.deleteMany({ userId })
DeleteAccountWorkouts(h, password) ==
    LET req == [Idle EXCEPT !.op = "deleteAccount", !.header = h, !.password = password]
        a == auth(h)
    IN  /\ IF ~a.pass
           THEN /\ last' = Denied(req, a)
                /\ UNCHANGED <<workouts, inflight>>
           ELSE IF password = NoPassword
           THEN /\ last' = [Failure(req, 400, "PASSWORD_REQUIRED",
                                    "Password confirmation required to delete account")
                              EXCEPT !.ran = TRUE]
                /\ UNCHANGED <<workouts, inflight>>
           ELSE IF ~comparePassword(password, findById(a.user._id).password)
           THEN /\ last' = [Failure(req, 401, "INVALID_PASSWORD", "Invalid password")
                              EXCEPT !.ran = TRUE]
                /\ UNCHANGED <<workouts, inflight>>
           ELSE /\ Cardinality(inflight) < MaxInFlight
                /\ workouts' = {w \in workouts : w.userId # a.user._id}
                /\ inflight' = inflight \cup
                      {[req EXCEPT !.op = "deleteAccount.await", !.caller = a.user._id]}
                /\ last' = [req EXCEPT !.op = "deleteAccount.await", !.caller = a.user._id]
        /\ UNCHANGED <<users, nextId, now, ticks, held, pending, measurements, nextRec, burst>>

\* the rest of DELETE /users/account: User.findByIdAndDelete(req.user._id), 200
DeleteAccountUser(r) ==
    /\ r \in inflight
    /\ r.op = "deleteAccount.await"
    /\ users' = {u \in users : u._id # r.caller}
    /\ last' = [r EXCEPT !.op = "deleteAccount", !.status = 200,
                         !.message = "Account deleted successfully", !.ran = TRUE]
    /\ inflight' = inflight \ {r}
    /\ UNCHANGED <<nextId, now, ticks, held, pending, recordVars, burst>>

\* GET /users/stats up to its first query: the guard, Workout.countDocuments({ userId })
GetStatsCount(h) ==
    LET req == [Idle EXCEPT !.op = "getStats", !.header = h]
        a == auth(h)
    IN  /\ IF ~a.pass
           THEN /\ last' = Denied(req, a)
                /\ inflight' = inflight
           ELSE LET r == [req EXCEPT !.op = "getStats.counted", !.caller = a.user._id,
                                     !.data = [totalWorkouts |->
                                                  routeStats(a.user._id).totalWorkouts]]
                IN  /\ Cardinality(inflight) < MaxInFlight
                    /\ inflight' = inflight \cup {r}
                    /\ last' = r
        /\ UNCHANGED <<users, nextId, now, ticks, held, pending, recordVars, burst>>

\* the second query of GET /users/stats: Workout.aggregate([$match, $group])
GetStatsAggregate(r) ==
    /\ r \in inflight
    /\ r.op = "getStats.counted"
    /\ LET next == [r EXCEPT !.op = "getStats.aggregated",
                             !.data = [f \in {"totalWorkouts", "totalVolume", "averageDuration",
                                              "totalExercises"} |->
                                          IF f = "totalWorkouts" THEN r.data.totalWorkouts
                                          ELSE routeStats(r.caller)[f]]]
       IN  /\ inflight' = (inflight \ {r}) \cup {next}
           /\ last' = next
    /\ UNCHANGED <<users, nextId, now, ticks, held, pending, recordVars, burst>>

\* the third query of GET /users/stats, countDocuments({ userId, date: { $gte } }), and the answer
GetStatsRecent(r) ==
    /\ r \in inflight
    /\ r.op = "getStats.aggregated"
    /\ last' = [r EXCEPT !.op = "getStats", !.status = 200, !.ran = TRUE,
                         !.data = [f \in (DOMAIN r.data) \cup {"recentWorkouts"} |->
                                      IF f = "recentWorkouts"
                                      THEN routeStats(r.caller).recentWorkouts
                                      ELSE r.data[f]]]
    /\ inflight' = inflight \ {r}
    /\ UNCHANGED <<users, nextId, now, ticks, held, pending, recordVars, burst>>

----------------------------------------------------------------------------
(* Environment *)

\* PUT /users/:userId/suspend, reached by an administrator (auth and adminAuth passed):
\* findByIdAndUpdate(userId, { suspended: suspended || false })
Suspend(userId, suspended) ==
    LET req == [Idle EXCEPT !.op = "suspend", !.id = userId, !.body = [suspended |-> suspended]]
    IN  /\ IF ~Exists(userId)
           THEN /\ last' = Failure(req, 404, "", "User not found")
                /\ users' = users
           ELSE LET updated == [findById(userId) EXCEPT !.suspended = suspended]
                IN  /\ users' = replaceUser(findById(userId), updated)
                    /\ last' = [req EXCEPT !.status = 200, !.data = withoutPassword(updated),
                                           !.ran = TRUE]
        /\ UNCHANGED <<nextId, now, ticks, held, pending, recordVars, requestVars>>

\* an account is deactivated in the store (User.findOneAndUpdate(..., { isActive: false }))
Deactivate(u) ==
    /\ u \in users
    /\ u.isActive
    /\ users' = replaceUser(u, [u EXCEPT !.isActive = FALSE])
    /\ last' = Idle
    /\ UNCHANGED <<nextId, now, ticks, held, pending, recordVars, requestVars>>

\* the collection is emptied (User.deleteMany({}))
DeleteMany ==
    /\ users # {}
    /\ users' = {}
    /\ last' = Idle
    /\ UNCHANGED <<nextId, now, ticks, held, pending, recordVars, requestVars>>

\* time passes: by one access, reset or refresh token lifetime
Tick(d) ==
    /\ ticks < MaxTicks
    /\ now' = now + d
    /\ ticks' = ticks + 1
    /\ last' = Idle
    /\ burst' = [sent |-> 0, limited |-> 0]
    /\ UNCHANGED <<users, nextId, held, pending, recordVars, inflight>>

\* a client drops a token
Forget(t) ==
    /\ t \in held
    /\ held' = held \ {t}
    /\ last' = Idle
    /\ UNCHANGED <<users, nextId, now, ticks, pending, recordVars, requestVars>>

----------------------------------------------------------------------------
(* Specification *)

Init ==
    /\ users = {}
    /\ nextId = 0
    /\ now = 0
    /\ ticks = 0
    /\ held = {}
    /\ pending = {}
    /\ last = Idle
    /\ workouts = {}
    /\ measurements = {}
    /\ nextRec = 0
    /\ burst = [sent |-> 0, limited |-> 0]
    /\ inflight = {}

\* one registration at a time: no request is between its existence check and its save
Serial == pending = {}

TestEmail == "test@example.com"
TestPassword == "password123"
TestSalt == "saltA"

\* the guard and the token lifecycle, for one e-mail address
NextGuard ==
    \/ Serial /\ RegisterCheck(TestEmail, TestPassword, "John")
    \/ \E p \in pending : RegisterSave(p, TestSalt)
    \/ \E tok \in Presentable : RefreshToken(tok)
    \/ \E tok \in Presentable : VerifyToken(tok)
    \/ \E userId \in 1..MaxUsers : Logout(userId)
    \/ GeneratePasswordResetToken(TestEmail)
    \/ \E h \in Headers : GetProfile(h)
    \/ \E h \in BearerHeaders : DeleteAccount(h, TestPassword)
    \/ \E u \in users : Deactivate(u)
    \/ \E d \in {EXPIRE, RESET_EXPIRE, REFRESH_EXPIRE} : Tick(d)
    \/ \E t \in held : Forget(t)

SpecGuard == Init /\ [][NextGuard]_vars

\* registrations that interleave at the await between the existence check and the save
NextRegister ==
    \/ \E raw \in RawEmails, password \in RegisterPasswords, firstName \in Names :
          RegisterCheck(raw, password, firstName)
    \/ \E p \in pending, salt \in Salts : RegisterSave(p, salt)
    \/ \E h \in BearerHeaders : DeleteAccount(h, TestPassword)
    \/ \E u \in users : Deactivate(u)
    \/ \E t \in held : Forget(t)

SpecRegister == Init /\ [][NextRegister]_vars

\* the handlers that answer with an account, for one account
NextLogin ==
    \/ \E raw \in {"test@example.com", "Test@Example.com"} :
          Serial /\ RegisterCheck(raw, TestPassword, "John")
    \/ \E p \in pending, salt \in Salts : RegisterSave(p, salt)
    \/ \E raw \in RawEmails, password \in Passwords : Login(raw, password)
    \/ \E raw \in RawEmails, password \in Passwords : ServiceLogin(raw, password)
    \/ \E h \in BearerHeaders : GetProfile(h)
    \/ \E h \in BearerHeaders, body \in Bodies : UpdateProfile(h, body)
    \/ \E u \in users : Deactivate(u)
    \/ \E t \in held : Forget(t)

SpecLogin == Init /\ [][NextLogin]_vars

\* password reset and login, for one account
NextReset ==
    \/ Serial /\ RegisterCheck(TestEmail, TestPassword, "John")
    \/ \E p \in pending : RegisterSave(p, TestSalt)
    \/ \E raw \in {TestEmail, "wrong@example.com"} : GeneratePasswordResetToken(raw)
    \/ \E tok \in Presentable, newPassword \in Passwords, salt \in Salts \ {TestSalt} :
          ResetPassword(tok, newPassword, salt)
    \/ \E raw \in {TestEmail, "wrong@example.com"}, password \in Passwords : Login(raw, password)
    \/ \E password \in Passwords : ServiceLogin(TestEmail, password)
    \/ \E u \in users : Deactivate(u)
    \/ DeleteMany
    \/ \E d \in {EXPIRE, RESET_EXPIRE} : Tick(d)
    \/ \E t \in held : Forget(t)

SpecReset == Init /\ [][NextReset]_vars

\* record ids a request can name: stored ones and ones never handed out
RecordIds == 1..MaxRecords

\* 'Bearer <token>' with a token the client holds
HeldHeaders == {[present |-> TRUE, words |-> <<"Bearer ">>, tok |-> t.tok] : t \in held}

OtherEmail == "wrong@example.com"

\* the body of the workout update requests
UpdateBody == CHOOSE body \in WorkoutBodies : "totalVolume" \in DOMAIN body

\* a registration whose client keeps the access token only
RegisterForAccess(p) == RegisterSave(p, TestSalt) /\ \A t \in held' : t.role = "access"

\* workouts of two accounts and their statistics
NextWorkouts ==
    \/ \E raw \in {TestEmail, OtherEmail} : Serial /\ RegisterCheck(raw, TestPassword, "John")
    \/ \E p \in pending : RegisterForAccess(p)
    \/ \E h \in HeldHeaders, body \in WorkoutBodies : CreateWorkout(h, body)
    \/ \E h \in HeldHeaders, id \in RecordIds : UpdateWorkout(h, id, UpdateBody)
    \/ \E h \in HeldHeaders : GetStats(h)
    \/ \E userId \in 1..MaxUsers : GetUserStats(userId)
    \/ \E t \in held : Forget(t)

SpecWorkouts == Init /\ [][NextWorkouts]_vars

\* a workout and a measurement of the first account, requested by id by both accounts
NextOwnership ==
    \/ \E raw \in {TestEmail, OtherEmail} : Serial /\ RegisterCheck(raw, TestPassword, "John")
    \/ \E p \in pending : RegisterForAccess(p)
    \/ \E h \in HeldHeaders : h.tok.id = 1 /\ workouts = {} /\ CreateWorkout(h, UpdateBody)
    \/ \E h \in HeldHeaders, id \in RecordIds : GetWorkout(h, id)
    \/ \E h \in HeldHeaders, id \in RecordIds, body \in WorkoutBodies \ {UpdateBody} :
          UpdateWorkout(h, id, body)
    \/ \E h \in HeldHeaders, id \in RecordIds : DeleteWorkout(h, id)
    \/ \E h \in HeldHeaders : h.tok.id = 1 /\ measurements = {} /\ CreateMeasurement(h, [weight |-> 70])
    \/ \E h \in HeldHeaders, id \in RecordIds : GetMeasurement(h, id)
    \/ \E h \in HeldHeaders, id \in RecordIds, body \in MeasurementBodies \ {[weight |-> 70]} :
          UpdateMeasurement(h, id, body)
    \/ \E h \in HeldHeaders, id \in RecordIds : DeleteMeasurement(h, id)
    \/ \E t \in held : Forget(t)

SpecOwnership == Init /\ [][NextOwnership]_vars

\* a workout of six different exercises, one set each
CircuitBody ==
    [name |-> "Circuit",
     exercises |-> [i \in 1..6 |->
                      [name |-> <<"Bench", "Squat", "Row", "Press", "Curl", "Dip">>[i],
                       sets |-> <<[reps |-> 10, weight |-> 20]>>]]]

PushBody == CHOOSE body \in WorkoutBodies : body.name = "Push"

\* one account with more exercise names than the popularExercises pipeline keeps; the
\* stats are read between other requests, not twice in a row
NextPopular ==
    \/ Serial /\ RegisterCheck(TestEmail, TestPassword, "John")
    \/ \E p \in pending : RegisterForAccess(p)
    \/ \E h \in HeldHeaders, body \in {CircuitBody, PushBody} : CreateWorkout(h, body)
    \/ \E userId \in 1..MaxUsers : last.op # "getUserStats" /\ GetUserStats(userId)
    \/ \E t \in held : Forget(t)

SpecPopular == Init /\ [][NextPopular]_vars

\* profile updates of two accounts
NextProfile ==
    \/ \E raw \in {TestEmail, OtherEmail} : Serial /\ RegisterCheck(raw, TestPassword, "John")
    \/ \E p \in pending : RegisterForAccess(p)
    \/ \E h \in HeldHeaders, body \in ProfileBodies : UpdateProfile(h, body)
    \/ \E userId \in 1..MaxUsers, body \in ProfileBodies : ServiceUpdateProfile(userId, body)
    \/ \E t \in held : Forget(t)

SpecProfile == Init /\ [][NextProfile]_vars

\* one client's login requests, more in one window than the auth limit
NextRate ==
    \/ Serial /\ RegisterCheck(TestEmail, TestPassword, "John")
    \/ \E p \in pending : RegisterSave(p, TestSalt)
    \/ \E password \in {TestPassword, "wrongpassword"} : BurstLogin(TestEmail, password)
    \/ Tick(EXPIRE)
    \/ \E t \in held : Forget(t)

SpecRate == Init /\ [][NextRate]_vars

\* bodies that name an owner themselves
OwnerNamingWorkout(owner) == withField(PushBody, "userId", owner)
OwnerNamingMeasurement(owner) == [weight |-> 70, user |-> owner]

\* records created and updated with bodies that name an account as their owner
NextTransfer ==
    \/ \E raw \in {TestEmail, OtherEmail} : Serial /\ RegisterCheck(raw, TestPassword, "John")
    \/ \E p \in pending : RegisterForAccess(p)
    \/ \E h \in HeldHeaders, owner \in 1..MaxUsers : CreateWorkout(h, OwnerNamingWorkout(owner))
    \/ \E h \in HeldHeaders, id \in RecordIds, owner \in 1..MaxUsers :
          UpdateWorkout(h, id, OwnerNamingWorkout(owner))
    \/ \E h \in HeldHeaders, owner \in 1..MaxUsers :
          CreateMeasurement(h, OwnerNamingMeasurement(owner))
    \/ \E h \in HeldHeaders, id \in RecordIds, owner \in 1..MaxUsers :
          UpdateMeasurement(h, id, OwnerNamingMeasurement(owner))
    \/ \E t \in held : Forget(t)

SpecTransfer == Init /\ [][NextTransfer]_vars

\* accounts that an administrator suspends and unsuspends
NextSuspend ==
    \/ \E raw \in {TestEmail, OtherEmail} : Serial /\ RegisterCheck(raw, TestPassword, "John")
    \/ \E p \in pending : RegisterSave(p, TestSalt)
    \/ \E userId \in 1..MaxUsers, suspended \in BOOLEAN : Suspend(userId, suspended)
    \/ \E raw \in {TestEmail, OtherEmail}, password \in Passwords : Login(raw, password)
    \/ \E h \in HeldHeaders : GetProfile(h)
    \/ \E t \in held : Forget(t)

SpecSuspend == Init /\ [][NextSuspend]_vars

\* one account whose requests interleave at their store operations
NextInterleave ==
    \/ Serial /\ RegisterCheck(TestEmail, TestPassword, "John")
    \/ \E p \in pending : RegisterForAccess(p)
    \/ \E h \in HeldHeaders : CreateWorkoutGuard(h, PushBody)
    \/ \E r \in inflight : CreateWorkoutSave(r)
    \/ \E h \in HeldHeaders, password \in {TestPassword, NoPassword} :
          DeleteAccountWorkouts(h, password)
    \/ \E r \in inflight : DeleteAccountUser(r)
    \/ \E h \in HeldHeaders : GetStatsCount(h)
    \/ \E r \in inflight : GetStatsAggregate(r)
    \/ \E r \in inflight : GetStatsRecent(r)
    \/ \E t \in held : Forget(t)

SpecInterleave == Init /\ [][NextInterleave]_vars

\* accounts with records, and their deletion
NextDeletion ==
    \/ \E raw \in {TestEmail, OtherEmail} : Serial /\ RegisterCheck(raw, TestPassword, "John")
    \/ \E p \in pending : RegisterForAccess(p)
    \/ \E h \in HeldHeaders : CreateWorkout(h, UpdateBody)
    \/ \E h \in HeldHeaders : CreateMeasurement(h, [weight |-> 70])
    \/ \E h \in HeldHeaders, password \in Passwords \cup {NoPassword} : DeleteAccount(h, password)
    \/ \E t \in held : Forget(t)

SpecDeletion == Init /\ [][NextDeletion]_vars

----------------------------------------------------------------------------
(* Claims *)

HeldAs(role, tok) == [role |-> role, tok |-> tok] \in held

Bearer(tok) == [present |-> TRUE, words |-> <<"Bearer ">>, tok |-> tok]

ActiveAccount(id) == \E u \in users : u._id = id /\ u.isActive

\* C1: a refresh token is rejected by the access guard (the auth middleware and
\* verifyToken), whatever header form carries it, and an access token is rejected by
\* refreshToken with INVALID_REFRESH_TOKEN and no token issued.
C1_PurposeSeparation ==
    /\ (last.op = "getProfile" /\ HeldAs("refresh", last.header.tok))
          => (~last.ran /\ last.status = 401)
    /\ (last.op = "verifyToken" /\ HeldAs("refresh", last.token))
          => (~last.ran /\ last.status = 401)
    /\ (last.op = "refreshToken" /\ HeldAs("access", last.token))
          => (~last.ran /\ last.status = 401 /\ last.code = "INVALID_REFRESH_TOKEN"
              /\ last.tokens = NoTokens)

\* an unexpired refresh token of an active account was presented as the bearer token
\* and turned down
C1_Witness ==
    /\ last.op = "getProfile"
    /\ last.header = Bearer(last.header.tok)
    /\ HeldAs("refresh", last.header.tok)
    /\ now < last.header.tok.exp
    /\ ActiveAccount(last.header.tok.id)
    /\ ~last.ran

\* C2: a password-reset token presented as the bearer token to the access guard (the
\* auth middleware or verifyToken) is rejected and the protected handler is not run.
C2_ResetTokenNeverAuthorizes ==
    /\ (last.op = "getProfile" /\ HeldAs("reset", last.header.tok)) => ~last.ran
    /\ (last.op = "verifyToken" /\ HeldAs("reset", last.token)) => ~last.ran

\* what the caller sees of an answer
Visible(r) ==
    [status |-> r.status, code |-> r.code, message |-> r.message, user |-> r.user,
     tokens |-> r.tokens]

\* why a login with the e-mail and password of the last request has to fail, if it has
LoginCase ==
    LET email == toLowerCase(last.email)
    IN  IF ~ \E u \in users : u.email = email THEN "no account"
        ELSE IF ~ \E u \in users : u.email = email /\ u.isActive THEN "inactive account"
        ELSE IF ~ \E u \in users : u.email = email /\ u.isActive
                                   /\ comparePassword(last.password, u.password)
        THEN "wrong password"
        ELSE "ok"

\* C3: a login with a wrong password, with an e-mail that has no account and with the
\* e-mail of an inactive account all get the same answer: 401 INVALID_CREDENTIALS with
\* one message, no account and no token, in the route and in AuthService.login alike.
C3_LoginFailuresIndistinguishable ==
    /\ (last.op = "login" /\ LoginCase # "ok")
          => Visible(last) = [status |-> 401, code |-> "INVALID_CREDENTIALS",
                              message |-> "Invalid email or password", user |-> NoUser,
                              tokens |-> NoTokens]
    /\ (last.op = "AuthService.login" /\ LoginCase # "ok")
          => Visible(last) = [status |-> 401, code |-> "INVALID_CREDENTIALS",
                              message |-> "Invalid credentials", user |-> NoUser,
                              tokens |-> NoTokens]

\* a login to an active account with the wrong password was turned down
C3_Witness ==
    /\ last.op = "login"
    /\ LoginCase = "wrong password"
    /\ last.code = "INVALID_CREDENTIALS"

\* C4 as stated: a request carrying an access token of a deleted or inactive account is
\* answered 401 INVALID_TOKEN and does not reach the handler.
C4_AlwaysInvalidToken ==
    /\ (last.op = "getProfile" /\ last.header = Bearer(last.header.tok)
        /\ HeldAs("access", last.header.tok) /\ ~ActiveAccount(last.header.tok.id))
          => (~last.ran /\ last.status = 401 /\ last.code = "INVALID_TOKEN")
    /\ (last.op = "verifyToken" /\ HeldAs("access", last.token)
        /\ ~ActiveAccount(last.token.id))
          => (~last.ran /\ last.status = 401 /\ last.code = "INVALID_TOKEN")

\* C4 (amended): a request carrying an access token of a deleted or inactive account is
\* always answered 401 and never reaches the handler; the code is INVALID_TOKEN whenever
\* the token has not expired (an expired token fails verification before the account is
\* looked up).
C4_RejectedWhileMissingOrInactive ==
    /\ (last.op = "getProfile" /\ last.header = Bearer(last.header.tok)
        /\ HeldAs("access", last.header.tok) /\ ~ActiveAccount(last.header.tok.id))
          => /\ ~last.ran
             /\ last.status = 401
             /\ (now < last.header.tok.exp => last.code = "INVALID_TOKEN")
    /\ (last.op = "verifyToken" /\ HeldAs("access", last.token)
        /\ ~ActiveAccount(last.token.id))
          => /\ ~last.ran
             /\ last.status = 401
             /\ (now < last.token.exp => last.code = "INVALID_TOKEN")

\* an unexpired access token of a deleted account was presented and answered INVALID_TOKEN
C4_Witness ==
    /\ last.op = "getProfile"
    /\ last.header = Bearer(last.header.tok)
    /\ HeldAs("access", last.header.tok)
    /\ now < last.header.tok.exp
    /\ ~Exists(last.header.tok.id)
    /\ last.code = "INVALID_TOKEN"

\* C5: a request whose Authorization header is absent or is not exactly 'Bearer <token>'
\* is answered 401 NO_TOKEN and does not reach the handler.
C5_NoTokenUnlessBearer ==
    (last.op = "getProfile" /\ (last.header.tok = NoTok \/ last.header # Bearer(last.header.tok)))
        => (~last.ran /\ last.status = 401 /\ last.code = "NO_TOKEN")

\* C6: an access token presented after its expiry instant fails with TOKEN_EXPIRED, in
\* the auth middleware and in verifyToken.
C6_ExpiredIsTokenExpired ==
    /\ (last.op = "getProfile" /\ last.header = Bearer(last.header.tok)
        /\ HeldAs("access", last.header.tok) /\ now >= last.header.tok.exp)
          => (~last.ran /\ last.code = "TOKEN_EXPIRED")
    /\ (last.op = "verifyToken" /\ HeldAs("access", last.token) /\ now >= last.token.exp)
          => (~last.ran /\ last.code = "TOKEN_EXPIRED")

\* the token pair generateTokens issues for an account: both name it, each verifies
\* under its own secret
IsPairFor(tokens, id) ==
    /\ tokens.accessToken.id = id
    /\ tokens.refreshToken.id = id
    /\ jwtVerify(tokens.accessToken, SECRET) = "ok"
    /\ jwtVerify(tokens.refreshToken, REFRESH_SECRET) = "ok"

\* C7: a register request whose existence check finds the e-mail stored (compared without
\* regard to case) is answered 400 USER_EXISTS; whenever the e-mail is stored, the request
\* creates no account, changes none and issues no token; a register request that saves an
\* e-mail that is not stored creates exactly one account and answers 201 with it and an
\* access+refresh pair for it.  (The e-mail's presence is taken at the handler's store
\* access: the existence check, and the save.)
C7_RegisterContract ==
    [][ last'.op \in {"register", "register.await"} =>
          LET email == toLowerCase(last'.email)
              present == \E u \in users : toLowerCase(u.email) = email
              check == Cardinality(pending') >= Cardinality(pending)
          IN  /\ (present /\ check) =>
                    /\ last'.op = "register"
                    /\ last'.status = 400
                    /\ last'.code = "USER_EXISTS"
                    /\ pending' = pending
              /\ present =>
                    /\ users' = users
                    /\ held' = held
                    /\ last'.tokens = NoTokens
                    /\ last'.user = NoUser
              /\ (~present /\ ~check) =>
                    /\ last'.status = 201
                    /\ \E u \in users' :
                          /\ u \notin users
                          /\ users' = users \cup {u}
                          /\ u.email = email
                          /\ last'.user = toJSON(u)
                          /\ IsPairFor(last'.tokens, u._id)
      ]_vars

\* the address of a stored account, written in another case, was refused as existing
C7_Witness ==
    /\ last.op = "register"
    /\ last.code = "USER_EXISTS"
    /\ last.email = "Test@Example.com"
    /\ \E u \in users : u.email = "test@example.com"

\* C8: no two stored accounts have the same e-mail, whatever the interleaving of the
\* register requests.
C8_EmailUnique ==
    \A u, v \in users : toLowerCase(u.email) = toLowerCase(v.email) => u = v

\* two registrations of one address both passed the existence check; the second save was
\* refused by the unique index
C8_Witness ==
    /\ last.op = "register"
    /\ last.code = "REGISTRATION_ERROR"
    /\ \E u \in users : u.email = toLowerCase(last.email)

\* C9: no answer of register, login, get profile or update profile carries the account's
\* password field.
C9_NoPasswordInResponse ==
    last.op \in {"register", "login", "AuthService.login", "getProfile", "updateProfile"}
        => "password" \notin DOMAIN last.user

\* a registration answered with the account it stored, whose stored document has the hash
C9_Witness ==
    /\ last.op = "register"
    /\ last.status = 201
    /\ \E u \in users : /\ "password" \in DOMAIN u
                        /\ last.user = [k \in (DOMAIN u) \ {"password"} |-> u[k]]

\* C10: refreshToken with an unexpired refresh token of an active account returns an
\* access+refresh pair for the subject of that token; with any other token, or when the
\* account is missing or inactive, it fails with 401 INVALID_REFRESH_TOKEN and returns
\* no token.
C10_RefreshContract ==
    last.op = "refreshToken" =>
        IF /\ HeldAs("refresh", last.token)
           /\ now < last.token.exp
           /\ ActiveAccount(last.token.id)
        THEN /\ last.ran
             /\ last.code = ""
             /\ IsPairFor(last.tokens, last.token.id)
        ELSE /\ ~last.ran
             /\ last.status = 401
             /\ last.code = "INVALID_REFRESH_TOKEN"
             /\ last.tokens = NoTokens

\* a refresh succeeded with a token issued at an earlier time: the pair is a new one
C10_Witness ==
    /\ last.op = "refreshToken"
    /\ last.ran
    /\ last.token.iat < now
    /\ last.tokens.refreshToken # last.token
    /\ last.tokens.accessToken.id = last.token.id

\* a login with this e-mail and password finds an active account and the password matches
LoginSucceedsIn(accounts, email, password) ==
    \E u \in accounts : /\ u.email = toLowerCase(email)
                        /\ u.isActive
                        /\ comparePassword(password, u.password)

LoginWouldSucceed(email, password) == LoginSucceedsIn(users, email, password)

\* the e-mail of the account a token names
EmailOf(id) == (CHOOSE u \in users : u._id = id).email

\* a reset token that resetPassword has to accept
ValidResetToken(tok) ==
    /\ HeldAs("reset", tok)
    /\ now < tok.exp
    /\ ActiveAccount(tok.id)

\* C11 as stated: after a successful resetPassword, login with newPassword succeeds and
\* login with the previous password fails; a failed resetPassword reports
\* INVALID_RESET_TOKEN and leaves the stored hash unchanged.
C11_PreviousPasswordFails ==
    [][ last'.op = "resetPassword" =>
          /\ last'.ran <=> ValidResetToken(last'.token)
          /\ ~last'.ran => /\ last'.code = "INVALID_RESET_TOKEN"
                           /\ users' = users
          /\ last'.ran =>
                LET email == EmailOf(last'.token.id)
                IN  /\ LoginSucceedsIn(users', email, last'.password)
                    /\ \A previous \in Passwords :
                          LoginSucceedsIn(users, email, previous)
                             => ~LoginSucceedsIn(users', email, previous)
      ]_vars

\* C11 (amended): after a successful resetPassword, login with newPassword succeeds and
\* login with any other password (the previous one, when it differs from newPassword)
\* fails; resetPassword succeeds exactly for an unexpired reset token of an active
\* account, and a failed one reports 400 INVALID_RESET_TOKEN and changes no account.
\* A login succeeds exactly when LoginWouldSucceed says so.
C11_ResetContract ==
    [][ /\ last'.op = "resetPassword" =>
              /\ last'.ran <=> ValidResetToken(last'.token)
              /\ ~last'.ran => /\ last'.status = 400
                               /\ last'.code = "INVALID_RESET_TOKEN"
                               /\ users' = users
              /\ last'.ran =>
                    LET email == EmailOf(last'.token.id)
                    IN  \A password \in Passwords :
                           LoginSucceedsIn(users', email, password)
                              <=> (password = last'.password)
        /\ last'.op \in {"login", "AuthService.login"} =>
              (last'.ran <=> LoginWouldSucceed(last'.email, last'.password))
      ]_vars

\* a reset replaced the password by a different one: the account's hash matches the new
\* password and no longer the one it registered with
C11_Witness ==
    /\ last.op = "resetPassword"
    /\ last.ran
    /\ last.password # TestPassword
    /\ LoginWouldSucceed(TestEmail, last.password)
    /\ ~LoginWouldSucceed(TestEmail, TestPassword)

\* what the caller of generatePasswordResetToken gets back
ResetRequestResult(r) == [message |-> r.message, resetToken |-> r.resetToken]

\* C12: generatePasswordResetToken returns the same acknowledgment whether or not an
\* active account with the e-mail exists: every call returns what the call for an e-mail
\* without account returns.
C12_ResetRequestIndistinguishable ==
    last.op = "generatePasswordResetToken" =>
        ResetRequestResult(last) =
            [message |-> "If the email exists, a reset link has been sent", resetToken |-> NoTok]

\* the access guard, verifyToken and refreshToken would accept the token
GuardAccepts(tok) == auth(Bearer(tok)).pass

VerifyAccepts(tok) == jwtVerify(tok, SECRET) = "ok" /\ ActiveAccount(tok.id)

RefreshAccepts(tok) == jwtVerify(tok, REFRESH_SECRET) = "ok" /\ ActiveAccount(tok.id)

LoginOps == {"login", "AuthService.login"}

Succeeded(r) == r.ran /\ r.status \in {200, 201}

\* C15: after every workout create and every workout update, the stored totalVolume is
\* the sum of weight x reps over all sets of all exercises of the record (a missing weight
\* or reps counting as 0), whatever the client sent; the sets {reps 10, weight 50} and
\* {reps 8, weight 55} of one exercise store 940.
C15_TotalVolumeRecomputed ==
    (last.op \in {"createWorkout", "updateWorkout"} /\ Succeeded(last)) =>
        /\ last.data \in workouts
        /\ "totalVolume" \in DOMAIN last.data
        /\ last.data.totalVolume = exercisesVolume(last.data.exercises)
        /\ last.body.name = "Push" => last.data.totalVolume = 940

WorkoutByIdOps == {"getWorkout", "updateWorkout", "deleteWorkout"}

MeasurementByIdOps == {"getMeasurement", "updateMeasurement", "deleteMeasurement"}

\* status and body of an answer to a request for a record
RecordAnswer(r) == [status |-> r.status, code |-> r.code, message |-> r.message, data |-> r.data]

\* the answer for a record that does not exist
NotFoundAnswer(op) ==
    IF op \in WorkoutByIdOps
    THEN [status |-> 404, code |-> "WORKOUT_NOT_FOUND", message |-> "Workout not found",
          data |-> NoData]
    ELSE [status |-> 404, code |-> "", message |-> "Measurement not found", data |-> NoData]

\* C16: GET, PUT and DELETE of a workout or a measurement by id, by an authenticated
\* account that does not own the record, answer 404 with the body of the answer for a
\* record that does not exist, and change no record.
C16_NotOwnedIsNotFound ==
    [][ (last'.op \in WorkoutByIdOps \cup MeasurementByIdOps /\ last'.ran) =>
          LET owned == IF last'.op \in WorkoutByIdOps
                       THEN \E w \in workouts : w._id = last'.id /\ w.userId = last'.caller
                       ELSE \E m \in measurements : m._id = last'.id /\ m.user = last'.caller
          IN  ~owned => /\ RecordAnswer(last') = NotFoundAnswer(last'.op)
                        /\ UNCHANGED <<workouts, measurements>>
      ]_vars

\* an account asked to delete the measurement of another account and got the 404
C16_Witness ==
    /\ last.op = "deleteMeasurement"
    /\ last.ran
    /\ last.status = 404
    /\ \E m \in measurements : m._id = last.id /\ m.user # last.caller

\* the account a deleteAccount request was authenticated as
DeletedId == last.header.tok.id

\* C17: after a successful account deletion no workout and no measurement of the deleted
\* account remains in the store, and a fetch of that account's workouts is empty.
C17_DeletionCascades ==
    (last.op = "deleteAccount" /\ Succeeded(last)) =>
        /\ ~Exists(DeletedId)
        /\ \A w \in workouts : w.userId # DeletedId
        /\ matchUser(DeletedId) = {}
        /\ \A m \in measurements : m.user # DeletedId

\* C18: an account deletion with a missing password (400 PASSWORD_REQUIRED) or a wrong
\* password (401 INVALID_PASSWORD) deletes nothing: the accounts, the workouts and the
\* measurements are what they were; a missing password is answered PASSWORD_REQUIRED and
\* a wrong one INVALID_PASSWORD.
C18_FailedDeletionDeletesNothing ==
    [][ (last'.op = "deleteAccount" /\ last'.ran) =>
          /\ last'.password = NoPassword
                => (last'.status = 400 /\ last'.code = "PASSWORD_REQUIRED")
          /\ (last'.password # NoPassword
              /\ ~comparePassword(last'.password, findById(last'.header.tok.id).password))
                => (last'.status = 401 /\ last'.code = "INVALID_PASSWORD")
          /\ last'.code \in {"PASSWORD_REQUIRED", "INVALID_PASSWORD"}
                => UNCHANGED <<users, workouts, measurements>>
      ]_vars

\* a deletion with the wrong password was refused and the account's workout is still there
C18_Witness ==
    /\ last.op = "deleteAccount"
    /\ last.code = "INVALID_PASSWORD"
    /\ Exists(DeletedId)
    /\ \E w \in workouts : w.userId = DeletedId

StatsOps == {"getStats", "getUserStats"}

\* the workouts of the account the last request computed the stats of
OwnWorkouts == {w \in workouts : w.userId = last.caller}

\* C19: the stats of an account report totalWorkouts = the number of its workouts,
\* totalVolume = the sum of their stored totalVolume, totalExercises = the sum of their
\* exercise-list lengths and averageDuration = the mean, rounded to the nearest integer
\* (halves up), of totalDuration over those that declare one; the workouts of other
\* accounts do not contribute.
C19_StatsAggregateOwnWorkouts ==
    (last.op \in StatsOps /\ last.ran) =>
        LET timed == {w \in OwnWorkouts : "totalDuration" \in DOMAIN w}
            n == Cardinality(timed)
            durations == Sum([w \in timed |-> w.totalDuration], timed)
        IN  /\ last.data.totalWorkouts = Cardinality(OwnWorkouts)
            /\ last.data.totalVolume =
                  Sum([w \in OwnWorkouts |->
                          IF "totalVolume" \in DOMAIN w THEN w.totalVolume ELSE 0], OwnWorkouts)
            /\ last.data.totalExercises =
                  Sum([w \in OwnWorkouts |-> Len(w.exercises)], OwnWorkouts)
            /\ IF n = 0 THEN last.data.averageDuration = 0
               ELSE /\ 2 * n * last.data.averageDuration - n <= 2 * durations
                    /\ 2 * durations < 2 * n * last.data.averageDuration + n

\* the stats were computed for an account that owns a workout with a duration while
\* another account owns a workout too
C19_Witness ==
    /\ last.op \in StatsOps
    /\ last.ran
    /\ \E w \in OwnWorkouts : "totalDuration" \in DOMAIN w
    /\ workouts \ OwnWorkouts # {}
    /\ last.data.totalVolume > 0
    /\ last.data.averageDuration > 0

\* C20: for an existing account without workouts the stats are computed and are zero or
\* empty (totalWorkouts, recentWorkouts, totalVolume, averageDuration, totalExercises = 0,
\* workoutsByDay and popularExercises empty), and computing stats changes no stored record.
C20_EmptyStatsAndReadOnly ==
    [][ (last'.op \in StatsOps) =>
          /\ UNCHANGED <<users, workouts, measurements, nextRec>>
          /\ (last'.op = "getUserStats" /\ Exists(last'.caller)) => last'.ran
          /\ (last'.op = "getStats" /\ auth(last'.header).pass)
                => (last'.ran /\ last'.status = 200)
          /\ (last'.ran /\ \A w \in workouts : w.userId # last'.caller) =>
                /\ last'.data.totalWorkouts = 0
                /\ last'.data.recentWorkouts = 0
                /\ last'.data.totalVolume = 0
                /\ last'.data.averageDuration = 0
                /\ last'.data.totalExercises = 0
                /\ last'.op = "getUserStats" =>
                      /\ last'.data.workoutsByDay = <<>>
                      /\ last'.data.popularExercises = <<>>
      ]_vars

\* the full stats were computed for an account without workouts while another account has one
C20_Witness ==
    /\ last.op = "getUserStats"
    /\ last.ran
    /\ OwnWorkouts = {}
    /\ workouts # {}
    /\ last.data.popularExercises = <<>>

\* the exercise entries of the account the stats were computed for, and those of one name
OwnExercises == UNION {{<<w, i>> : i \in 1..Len(w.exercises)} : w \in OwnWorkouts}

OwnExercisesNamed(n) == {e \in OwnExercises : e[1].exercises[e[2]].name = n}

OwnExerciseNames == {e[1].exercises[e[2]].name : e \in OwnExercises}

\* where a name is encountered first: the earliest workout, then the position in it
FirstEncounter(n) ==
    LET at(e) == 10 * e[1]._id + e[2]
    IN  CHOOSE k \in {at(e) : e \in OwnExercisesNamed(n)} :
            \A e \in OwnExercisesNamed(n) : k <= at(e)

\* what the claim and its amended reading share: at most 5 names, each once, each with its
\* occurrence count and its total number of sets, in non-increasing count order, and no
\* name left out has more occurrences than a listed one
PopularContract(r) ==
    /\ Len(r) = IF Cardinality(OwnExerciseNames) <= 5 THEN Cardinality(OwnExerciseNames) ELSE 5
    /\ \A i \in 1..Len(r) :
          /\ r[i].name \in OwnExerciseNames
          /\ r[i].workouts = Cardinality(OwnExercisesNamed(r[i].name))
          /\ r[i].totalSets = Sum([e \in OwnExercisesNamed(r[i].name) |->
                                      Len(e[1].exercises[e[2]].sets)],
                                  OwnExercisesNamed(r[i].name))
    /\ \A i, j \in 1..Len(r) : i < j => (r[i].name # r[j].name /\ r[i].workouts >= r[j].workouts)
    /\ \A n \in OwnExerciseNames : (\A i \in 1..Len(r) : r[i].name # n)
          => \A i \in 1..Len(r) : r[i].workouts >= Cardinality(OwnExercisesNamed(n))

\* C21 (as stated): popularExercises lists at most 5 exercise names, those with the highest
\* occurrence counts, in non-increasing count order, each with its total number of sets,
\* and names with equal counts are ranked in first-encountered order.
C21_PopularTiesFirstEncountered ==
    (last.op = "getUserStats" /\ last.ran) =>
        LET r == last.data.popularExercises
        IN  /\ PopularContract(r)
            /\ \A i, j \in 1..Len(r) :
                  (i < j /\ r[i].workouts = r[j].workouts)
                      => FirstEncounter(r[i].name) < FirstEncounter(r[j].name)
            /\ \A n \in OwnExerciseNames, i \in 1..Len(r) :
                  ((\A j \in 1..Len(r) : r[j].name # n)
                   /\ r[i].workouts = Cardinality(OwnExercisesNamed(n)))
                      => FirstEncounter(r[i].name) < FirstEncounter(n)

\* C21 (amended): popularExercises lists at most 5 exercise names, each once, those with the
\* highest occurrence counts, in non-increasing count order, each with its occurrence count
\* and its total number of sets; the order among names with equal counts is not determined.
C21_PopularTopFive ==
    (last.op = "getUserStats" /\ last.ran) => PopularContract(last.data.popularExercises)

\* the account has more than 5 exercise names, one of them in two workouts: 5 are listed
C21_Witness ==
    /\ last.op = "getUserStats"
    /\ last.ran
    /\ Cardinality(OwnExerciseNames) > 5
    /\ Len(last.data.popularExercises) = 5
    /\ last.data.popularExercises[1].workouts = 2
    /\ last.data.popularExercises[5].workouts = 1

\* the weekday of a date counted from Sunday = 0 (Date.prototype.getUTCDay); the clock
\* starts on a Thursday
WeekdayFromSunday(date) == ((date \div (24 * 4)) + 4) % 7

\* the histogram is in ascending key order and its counts sum to totalWorkouts
HistogramShape(h) ==
    /\ \A i, j \in 1..Len(h) : i < j => h[i].dayOfWeek < h[j].dayOfWeek
    /\ Sum([i \in 1..Len(h) |-> h[i].count], 1..Len(h)) = last.data.totalWorkouts
    /\ last.data.totalWorkouts = Cardinality(OwnWorkouts)

\* C22 (as stated): workoutsByDay is keyed by day-of-week numbers in 0..6, in ascending key
\* order; each count is the number of the account's workouts dated on that weekday, every
\* weekday with a workout has a key, and the counts sum to totalWorkouts.
C22_HistogramKeysZeroToSix ==
    (last.op = "getUserStats" /\ last.ran) =>
        LET h == last.data.workoutsByDay
        IN  /\ HistogramShape(h)
            /\ \A i \in 1..Len(h) :
                  /\ h[i].dayOfWeek \in 0..6
                  /\ h[i].count = Cardinality({w \in OwnWorkouts :
                                                  WeekdayFromSunday(w.date) = h[i].dayOfWeek})
            /\ \A w \in OwnWorkouts :
                  \E i \in 1..Len(h) : h[i].dayOfWeek = WeekdayFromSunday(w.date)

\* C22 (amended): workoutsByDay is keyed by day-of-week numbers in 1..7 (1 = Sunday,
\* 7 = Saturday), in ascending key order; each count is the number of the account's
\* workouts dated on that weekday, every weekday with a workout has a key with a positive
\* count, and the counts sum to totalWorkouts.
C22_HistogramKeysOneToSeven ==
    (last.op = "getUserStats" /\ last.ran) =>
        LET h == last.data.workoutsByDay
        IN  /\ HistogramShape(h)
            /\ \A i \in 1..Len(h) :
                  /\ h[i].dayOfWeek \in 1..7
                  /\ h[i].count > 0
                  /\ h[i].count = Cardinality({w \in OwnWorkouts :
                                                  WeekdayFromSunday(w.date) + 1 = h[i].dayOfWeek})
            /\ \A w \in OwnWorkouts :
                  \E i \in 1..Len(h) : h[i].dayOfWeek = WeekdayFromSunday(w.date) + 1

\* the histogram of an account with workouts on two weekdays, one of them a Saturday
C22_Witness ==
    /\ last.op = "getUserStats"
    /\ last.ran
    /\ Len(last.data.workoutsByDay) = 2
    /\ last.data.workoutsByDay[2].dayOfWeek = 7
    /\ \E w \in OwnWorkouts : WeekdayFromSunday(w.date) = 6

\* the fields of an account whose values differ between two versions of it
ChangedFields(old, new) ==
    {k \in (DOMAIN old) \cup (DOMAIN new) :
        ~(k \in DOMAIN old /\ k \in DOMAIN new /\ old[k] = new[k])}

\* the fields no profile update may touch
ProtectedFields == {"_id", "email", "password", "role", "isActive", "suspended"}

C24_UniformEnvelope ==
    last.op \in HttpOps =>
        /\ {"success", "timestamp"} \subseteq envelope(last).keys
        /\ last.status >= 400 =>
              /\ "error" \in envelope(last).keys
              /\ {"code", "message"} \subseteq envelope(last).error

\* C25: when one client has sent more login requests in one window than the auth limit,
\* at least one of them was answered 429; and a request answered 429 did not reach the
\* login handler.
C25_LoginRateLimited ==
    /\ burst.sent > AUTH_MAX_REQUESTS => burst.limited >= 1
    /\ (last.op = "login" /\ last.status = 429) => ~last.ran

\* C26: the owner of a workout or measurement never changes after creation: a record
\* created by a request is owned by the request's authenticated caller whatever the body
\* says, and no request changes the owner of a stored record.
C26_OwnerNeverChanges ==
    [][ /\ \A w \in workouts, v \in workouts' : w._id = v._id => w.userId = v.userId
        /\ \A m \in measurements, n \in measurements' : m._id = n._id => m.user = n.user
        /\ \A v \in workouts' :
              (\A w \in workouts : w._id # v._id) => v.userId = last'.caller
        /\ \A n \in measurements' :
              (\A m \in measurements : m._id # n._id) => n.user = last'.caller
      ]_vars

\* C27: every register request is answered 201 or 400; one that creates no account because
\* the e-mail is taken, also when another registration of it was saved after this one's
\* existence check, is answered 400 USER_EXISTS, never 500.
C27_RegisterNever500 ==
    last.op = "register" =>
        \/ last.status = 201 /\ last.ran
        \/ last.status = 400 /\ last.code \in {"USER_EXISTS", "VALIDATION_ERROR"} /\ ~last.ran

\* C28: while an account is suspended, no login with its credentials succeeds and no request
\* bearing one of its access tokens passes the guard.
C28_SuspendedIsRefused ==
    /\ (last.op = "login" /\ last.status = 200) =>
          \A u \in users : u._id = last.user._id => ~u.suspended
    /\ (last.op = "getProfile" /\ last.ran) =>
          \A u \in users : u._id = last.header.tok.id => ~u.suspended

\* C29: no workout outlives its owner: every stored workout belongs to a stored account,
\* also when a workout creation that has passed the guard is under way during the account's
\* deletion.
C29_NoWorkoutOutlivesOwner ==
    \A w \in workouts : Exists(w.userId)

\* C30: in every stats result recentWorkouts <= totalWorkouts, also when workouts are created
\* while the stats are computed.
C30_RecentAtMostTotal ==
    (last.op = "getStats" /\ last.ran) => last.data.recentWorkouts <= last.data.totalWorkouts

====
